---------------------------- MODULE Spec2Model ----------------------------
(***************************************************************************)
(* The composite mobile-manipulator control layer of mimic-lerobot:        *)
(*   - MecanumBase           (src/lerobot/motors/mecanum_base/mecanum.py)  *)
(*   - JoystickBaseController, XboxBaseController, KeyboardBaseController  *)
(*                           (teleoperators/mimic_leader/base_controllers) *)
(*   - MimicFollower         (robots/mimic_follower/mimic_follower.py)     *)
(*   - MimicLeader           (teleoperators/mimic_leader/mimic_leader.py)  *)
(*   - the control-loop scripts run_policy.py, continus_runtime_smolvla.py *)
(*     and test_base.py                                                    *)
(* Serial lines, command lines and feature keys are modelled as the        *)
(* strings the code builds and parses.                                     *)
(***************************************************************************)
EXTENDS Integers, Sequences, FiniteSets, TLC

VARIABLES
    \* ---- MecanumBase
    ser,            \* self.ser: "none" (None), "open", "closed" (object, not is_open)
    inbuf,          \* the serial input buffer: the lines readline() will hand out
    wire,           \* the most recent events on the port: ser.write(msg) calls, close()
    latest_odom,    \* self._latest_odom  <<x, y, theta>>
    latest_vel,     \* self._latest_vel   <<vx, vy, omega>>
    rpc,            \* the control thread and read_odom: "idle", "drain" (inside the
                    \* loop), "ret" (returned, the caller holds the result)
    line,           \* read_odom's local `line` ("" stands for None)
    nRead,          \* readline() calls made by this read_odom (saturating)
    allWF,          \* every line this read_odom read was a well-formed ODOM line
    allBad,         \* every line this read_odom read was truncated or garbled
    want,           \* the six values of the last line this read_odom read, when that
                    \* line was well-formed
    pre,            \* the stored pose/velocity when this read_odom was called
    ret,            \* the pair this read_odom returned
    outcome         \* how the last call ended: "none", "raised" (to the caller), and
                    \* for read_odom "closed", "noline", "parsed", "fault"

VARIABLES
    \* ---- JoystickBaseController
    joystick,                   \* self.joystick: "none" (None) or "init" (an initialised handle)
    use_toggle_turbo,           \* self.use_toggle_turbo
    require_safety_button,      \* self.require_safety_button
    turbo_toggled,              \* self.turbo_toggled
    both_buttons_pressed_last,  \* self.both_buttons_pressed_last
    jvel,                       \* what the last get_velocities() returned
    polled,                     \* a get_velocities() call has read the buttons
    prevBoth,                   \* both buttons were down at the previous such call
    curBoth,                    \* both buttons were down at the last such call
    curEnable,                  \* the enable button was down at the last such call
    flipped,                    \* the last such call changed turbo_toggled
    jabsent,                    \* the last connect() found no joystick
    jout,                       \* how the last get_velocities() ended: "none",
                                \* "nohandle", "fault", "safety", "mapped"
    curAxes,                    \* the axes, their number and the turbo button
    curNum,                     \* that call read
    curTurbo

joyVars == <<joystick, use_toggle_turbo, require_safety_button, turbo_toggled,
             both_buttons_pressed_last, jvel, polled, prevBoth, curBoth, curEnable,
                   flipped, jabsent, jout, curAxes, curNum, curTurbo>>

VARIABLES
    \* ---- MimicFollower
    left_motors,    \* self.left_arm.bus.motors (the names)
    right_motors,   \* self.right_arm.bus.motors (the names)
    cameras,        \* the keys of config.cameras / self.cameras
    left_conn,      \* self.left_arm.bus.is_connected
    right_conn,     \* self.right_arm.bus.is_connected
    cams_conn,      \* the cameras whose is_connected is true
    fcall,          \* the last MimicFollower call: "none", "connect",
                    \* "get_observation", "send_action", "disconnect"
    ffail,          \* the sub-device whose error that call raised, or "none"
    faction,        \* the action map that call was given (send_action)
    fret,           \* the map that call returned (get_observation, send_action)
    twist_args      \* the arguments of the base.send_twist that call made

folVars == <<left_motors, right_motors, cameras, left_conn, right_conn, cams_conn,
             fcall, ffail, faction, fret, twist_args>>

VARIABLES
    \* ---- MimicLeader
    base_control_mode,  \* config.base_control_mode
    pynput_available,   \* PYNPUT_AVAILABLE
    key_listener,       \* self.key_listener: "none" or "alive"
    base_pressed_keys,  \* self.base_pressed_keys
    pad,                \* the gamepad's present buttons and axes
    lead_left_conn,     \* self.left_arm.is_connected
    lead_right_conn,    \* self.right_arm.is_connected
    lcall,              \* the MimicLeader call that has just returned; "none"
                        \* once the operator's input has changed since
    lfail,              \* the arm whose error that call raised, or "none"
    lret                \* the map that call returned (get_action)

leadVars == <<base_control_mode, pynput_available, key_listener, base_pressed_keys, pad,
              lead_left_conn, lead_right_conn, lcall, lfail, lret>>

VARIABLES
    \* ---- the scripts that run a control loop
    script,       \* "run_policy", "continuous" or "test_base"
    lpc,          \* where main() is: "start", "pre", "observe", "act",
                  \* "finally", "exited", "collected"
    how,          \* how the loop was left: "none", "normal", "interrupt", "exception"
    connected,    \* the script's connect() call returned
    disc_called,  \* the script called disconnect()
    steps         \* iterations done by test_base's for loop

loopVars == <<script, lpc, how, connected, disc_called, steps>>

VARIABLES
    \* ---- XboxBaseController
    xjoystick,         \* self.joystick: "none", "init" (an initialized handle),
                       \* "quit" (a handle after its quit())
    pygame_available,  \* PYGAME_AVAILABLE
    xcall,             \* the last call: "none", "connect", "disconnect", "get_velocities"
    xout,              \* how it ended: "none", "returned", "raised"
    xvel,              \* what the last get_velocities() returned
    xpad,              \* the buttons and axes the gamepad showed at that poll
    xcount             \* pygame.joystick.get_count() at the last connect()

xboxVars == <<xjoystick, pygame_available, xcall, xout, xvel, xpad, xcount>>

VARIABLES
    \* ---- KeyboardBaseController
    kb_pynput,     \* PYNPUT_AVAILABLE
    kb_listener,   \* self.key_listener: "none" or "alive"
    pressed_keys,  \* self.pressed_keys
    kpc,           \* get_velocities(): 0 not running, i in 1..6 about to test
                   \* the i-th key, 7 returned
    kacc,          \* its locals <<vx, vy, omega>>
    kret,          \* what it returned
    kseen,         \* the twists the pressed-key sets that stood during the call map to
    kconn          \* is_connected() when that call began

kbVars == <<kb_pynput, kb_listener, pressed_keys, kpc, kacc, kret, kseen, kconn>>

VARIABLES
    \* ---- a caller of MecanumBase (test_base.py, MimicFollower)
    bcall,   \* what last happened to the driver: "none", "deliver", "connect",
             \* "send_twist", "disconnect", "read_odom", "write"
    bline,   \* the line the last read_odom() kept for parsing ("" if none)
    held,    \* what the caller's `odom, vel = base.read_odom()` names: "none",
             \* or "driver": the driver's own _latest_odom and _latest_vel arrays
    seen     \* the values those arrays held when read_odom() handed them back,
             \* with what the caller has itself written into them since

useVars == <<bcall, bline, held, seen>>

baseVars == <<ser, inbuf, wire, latest_odom, latest_vel, rpc, line, nRead, allWF,
              allBad, want, pre, ret, outcome>>

vars == <<baseVars, joyVars, folVars, leadVars, loopVars, xboxVars, kbVars, useVars>>

-----------------------------------------------------------------------------
(* Bounds of the model. *)

MaxSteps == 2       \* iterations of the for loop of test_base.py
MaxBuf  == 2        \* lines the input buffer holds at most
MaxWire == 3        \* port events remembered (a sliding window)
ReadCap == 2        \* nRead saturates here

-----------------------------------------------------------------------------
(* Strings. *)

Abs(v) == IF v < 0 THEN -v ELSE v

Whitespace == {" ", "\n", "\r", "\t"}

StartsWith(s, p) == Len(s) >= Len(p) /\ SubSeq(s, 1, Len(p)) = p

EndsWith(s, p) == Len(s) >= Len(p) /\ SubSeq(s, Len(s) - Len(p) + 1, Len(s)) = p

\* str.removeprefix(p)
RemovePrefix(s, p) == IF StartsWith(s, p) THEN SubSeq(s, Len(p) + 1, Len(s)) ELSE s

\* bytes.decode('utf-8', errors='ignore'): bytes that are no valid UTF-8 are
\* dropped; "~" stands for such a byte.
RECURSIVE Decode(_)
Decode(s) ==
    IF s = "" THEN ""
    ELSE IF SubSeq(s, 1, 1) = "~" THEN Decode(SubSeq(s, 2, Len(s)))
    ELSE SubSeq(s, 1, 1) \o Decode(SubSeq(s, 2, Len(s)))

\* str.strip()
RECURSIVE LStrip(_)
LStrip(s) ==
    IF s # "" /\ SubSeq(s, 1, 1) \in Whitespace THEN LStrip(SubSeq(s, 2, Len(s))) ELSE s

RECURSIVE RStrip(_)
RStrip(s) ==
    IF s # "" /\ SubSeq(s, Len(s), Len(s)) \in Whitespace
    THEN RStrip(SubSeq(s, 1, Len(s) - 1)) ELSE s

Strip(s) == LStrip(RStrip(s))

\* str.split(','), acc is the part collected so far
RECURSIVE SplitAcc(_, _)
SplitAcc(s, acc) ==
    IF s = "" THEN <<acc>>
    ELSE IF SubSeq(s, 1, 1) = "," THEN <<acc>> \o SplitAcc(SubSeq(s, 2, Len(s)), "")
    ELSE SplitAcc(SubSeq(s, 2, Len(s)), acc \o SubSeq(s, 1, 1))

Split(s) == SplitAcc(s, "")

\* float(): the numeric texts the model's lines carry; any other text raises
\* ValueError.
FloatTable ==
    [t \in {"0", "1", "2", "3", "4", "5", "6", "7", "9", "16777217"} |->
        CASE t = "0" -> 0 [] t = "1" -> 1 [] t = "2" -> 2 [] t = "3" -> 3
          [] t = "4" -> 4 [] t = "5" -> 5 [] t = "6" -> 6 [] t = "7" -> 7
          [] t = "9" -> 9 [] t = "16777217" -> 16777217]

IsFloat(t) == Strip(t) \in DOMAIN FloatTable

Float(t) == FloatTable[Strip(t)]

\* Storing into an np.float32 array: integers up to 2^24 are kept, the next
\* binade keeps even integers only (round to nearest, ties to even mantissa).
Float32(v) ==
    IF Abs(v) <= 16777216 \/ v % 2 = 0 THEN v
    ELSE IF (v - 1) % 4 = 0 THEN v - 1 ELSE v + 1

\* Decimal text of a natural number.
Digit(d) == SubSeq("0123456789", d + 1, d + 1)

RECURSIVE NatStr(_)
NatStr(n) == IF n < 10 THEN Digit(n) ELSE NatStr(n \div 10) \o Digit(n % 10)

\* f"{v:.3f}" for v in units of 1e-4: rounded to three decimals, the sign of a
\* negative value kept even when it rounds to zero ("-0.000").
Fmt3(v) ==
    LET m == (Abs(v) + 5) \div 10
    IN  (IF v < 0 THEN "-" ELSE "") \o NatStr(m \div 1000) \o "."
        \o Digit((m \div 100) % 10) \o Digit((m \div 10) % 10) \o Digit(m % 10)

\* msg = f"TWIST,{vx:.3f},{vy:.3f},{omega:.3f}\n"
FormatTwist(vx, vy, omega) ==
    "TWIST," \o Fmt3(vx) \o "," \o Fmt3(vy) \o "," \o Fmt3(omega) \o "\n"

-----------------------------------------------------------------------------
(* MecanumBase. *)

Zero3 == <<0, 0, 0>>

\* The telemetry the microcontroller (or line noise) can put on the port.
LineSet ==
    { "ODOM,1,2,3,4,5,6\n",                 \* well-formed
      "ODOM,16777217,6,5,4,3,2,9,9,9,9\n",  \* well-formed; x is no float32 value
      "ODOM,1,2",                           \* truncated: the rest has not arrived
      ",3,4,5,6\n",                         \* the rest of a line whose start was dropped
      "TWIST,1,2,3,4,5,6\n",                \* wrong header
      "ODOM,1,2,3,4,5\n",                   \* too few fields
      "ODOM,1,2,x,4,5,6\n",                 \* a field that is no float
      "ODOMX,7,7,7,7,7,7\n" }               \* a header that is not ODOM but begins with it

RestOfLine == ",3,4,5,6\n"

Complete(l) == EndsWith(l, "\n")

\* The commanded twists (units of 1e-4 m/s, 1e-4 rad/s) a caller passes.
TwistSet == { <<0, 0, 0>>, <<2006, -4, 0>>, <<-1234, 0, 12346>> }

WriteEv(msg, ok) == [op |-> "write", msg |-> msg, ok |-> ok]
CloseEv == [op |-> "close", msg |-> "", ok |-> TRUE]

\* The port's event window after one more event.
Push(w, e) == IF Len(w) < MaxWire THEN Append(w, e) ELSE Append(Tail(w), e)

\* _parse_odom_string storing the pose as soon as its three fields are parsed,
\* before the velocity fields are looked at.
ParseOdomStringPoseFirst(data_str, st) ==
    IF ~StartsWith(data_str, "ODOM") THEN st
    ELSE LET parts == Split(data_str) IN
         IF Len(parts) < 4 THEN st
         ELSE IF \E i \in 2..4 : ~IsFloat(parts[i]) THEN st
         ELSE LET pose == <<Float32(Float(parts[2])), Float32(Float(parts[3])),
                            Float32(Float(parts[4]))>> IN
              IF Len(parts) < 7 THEN [odom |-> pose, vel |-> st.vel]
              ELSE IF \E i \in 5..7 : ~IsFloat(parts[i]) THEN [odom |-> pose, vel |-> st.vel]
              ELSE [odom |-> pose,
                    vel  |-> <<Float32(Float(parts[5])), Float32(Float(parts[6])),
                               Float32(Float(parts[7]))>>]

\* _parse_odom_string(data_str): the stored pair after the call.
ParseOdomString(data_str, st) ==
    IF ~StartsWith(data_str, "ODOM") THEN st
    ELSE LET parts == Split(data_str) IN
         IF Len(parts) < 7 THEN st
         ELSE IF \E i \in 2..7 : ~IsFloat(parts[i]) THEN st      \* ValueError: pass
         ELSE [odom |-> <<Float32(Float(parts[2])), Float32(Float(parts[3])),
                          Float32(Float(parts[4]))>>,
               vel  |-> <<Float32(Float(parts[5])), Float32(Float(parts[6])),
                          Float32(Float(parts[7]))>>]

Stored == [odom |-> latest_odom, vel |-> latest_vel]

\* The microcontroller sends bytes while the port is open: a new line, or
\* the rest of the line it had begun.
Deliver(l) ==
    /\ ser = "open"
    /\ IF inbuf # <<>> /\ ~Complete(inbuf[Len(inbuf)])
       THEN /\ l = RestOfLine
            /\ inbuf' = [inbuf EXCEPT ![Len(inbuf)] = @ \o l]
       ELSE /\ l \in LineSet
            /\ Len(inbuf) < MaxBuf
            /\ inbuf' = Append(inbuf, l)
    /\ UNCHANGED <<ser, wire, latest_odom, latest_vel, rpc, line,
                   nRead, allWF, allBad, want, pre, ret, outcome>>

\* connect() assigning self.ser before the device is known to have opened: a
\* failed open still raises, and leaves a handle that reports open.
ConnectStoresHandle(opened) ==
    /\ rpc = "idle"
    /\ IF ser # "open"
       THEN /\ ser' = "open"
            /\ inbuf' = IF opened THEN <<>> ELSE inbuf
            /\ outcome' = IF opened THEN "none" ELSE "raised"
       ELSE /\ outcome' = "none"
            /\ UNCHANGED <<ser, inbuf>>
    /\ UNCHANGED <<wire, latest_odom, latest_vel, rpc, line,
                   nRead, allWF, allBad, want, pre, ret>>

\* connect() without its `if self.ser is None or not self.ser.is_open`: every
\* call opens the device and resets the input buffer.
ConnectReopens(opened) ==
    /\ rpc = "idle"
    /\ IF opened
       THEN /\ ser' = "open"
            /\ inbuf' = <<>>
            /\ outcome' = "none"
       ELSE /\ outcome' = "raised"
            /\ UNCHANGED <<ser, inbuf>>
    /\ UNCHANGED <<wire, latest_odom, latest_vel, rpc, line,
                   nRead, allWF, allBad, want, pre, ret>>

\* connect(): serial.Serial(...) succeeds (opened) or raises SerialException.
Connect(opened) ==
    /\ rpc = "idle"
    /\ IF ser # "open"
       THEN IF opened
            THEN /\ ser' = "open"
                 /\ inbuf' = <<>>                    \* reset_input_buffer()
                 /\ outcome' = "none"
            ELSE /\ outcome' = "raised"              \* raise e
                 /\ UNCHANGED <<ser, inbuf>>
       ELSE /\ outcome' = "none"
            /\ UNCHANGED <<ser, inbuf>>
    /\ UNCHANGED <<wire, latest_odom, latest_vel, rpc, line,
                   nRead, allWF, allBad, want, pre, ret>>

\* send_twist() without its `if not self.ser or not self.ser.is_open: return`.
SentWireUnchecked(vx, vy, omega, ok) ==
    Push(wire, WriteEv(FormatTwist(vx, vy, omega), ok))

\* send_twist(vx, vy, omega): the port's events after the call; ok is whether
\* ser.write succeeded (a SerialException is caught and logged).
SentWire(vx, vy, omega, ok) ==
    IF ser # "open" THEN wire
    ELSE Push(wire, WriteEv(FormatTwist(vx, vy, omega), ok))

\* send_twist() without its `except serial.SerialException`: the failure of
\* the write reaches the caller.
SendTwistUncaught(vx, vy, omega, ok) ==
    /\ rpc = "idle"
    /\ wire' = SentWire(vx, vy, omega, ok)
    /\ outcome' = IF ser = "open" /\ ~ok THEN "raised" ELSE "none"
    /\ UNCHANGED <<ser, inbuf, latest_odom, latest_vel, rpc, line,
                   nRead, allWF, allBad, want, pre, ret>>

SendTwist(vx, vy, omega, ok) ==
    /\ rpc = "idle"
    /\ wire' = SentWire(vx, vy, omega, ok)
    /\ outcome' = "none"
    /\ UNCHANGED <<ser, inbuf, latest_odom, latest_vel, rpc, line,
                   nRead, allWF, allBad, want, pre, ret>>

\* disconnect(): on an open port, send_twist(0.0, 0.0, 0.0), then ser.close().
DisconnectNoStop(ok) ==
    /\ rpc = "idle"
    /\ IF ser = "open"
       THEN /\ wire' = Push(wire, CloseEv)
            /\ ser' = "closed"
       ELSE UNCHANGED <<ser, wire>>
    /\ outcome' = "none"
    /\ UNCHANGED <<inbuf, latest_odom, latest_vel, rpc, line,
                   nRead, allWF, allBad, want, pre, ret>>

Disconnect(ok) ==
    /\ rpc = "idle"
    /\ IF ser = "open"
       THEN /\ wire' = Push(SentWire(0, 0, 0, ok), CloseEv)
            /\ ser' = "closed"
       ELSE UNCHANGED <<ser, wire>>
    /\ outcome' = "none"
    /\ UNCHANGED <<inbuf, latest_odom, latest_vel, rpc, line,
                   nRead, allWF, allBad, want, pre, ret>>

\* A line as the protocol defines it: complete, header ODOM, six floats.
WellFormed(l) ==
    /\ Complete(l)
    /\ LET parts == Split(Strip(Decode(l))) IN
       /\ parts[1] = "ODOM"
       /\ Len(parts) >= 7
       /\ \A i \in 2..7 : IsFloat(parts[i])

NoPair == [odom |-> Zero3, vel |-> Zero3]

\* The pose and velocity a well-formed line carries: its first six fields, as
\* float32 values.
FieldsOf(l) ==
    LET parts == Split(Strip(Decode(l))) IN
    [odom |-> <<Float32(Float(parts[2])), Float32(Float(parts[3])), Float32(Float(parts[4]))>>,
     vel  |-> <<Float32(Float(parts[5])), Float32(Float(parts[6])), Float32(Float(parts[7]))>>]

\* A truncated line: its newline has not arrived.
Truncated(l) == ~Complete(l)

\* A garbled line: complete, but its header is not ODOM, or fewer than six
\* fields follow the header, or one of the six is no float.
Garbled(l) ==
    /\ Complete(l)
    /\ LET parts == Split(Strip(Decode(l))) IN
       \/ parts[1] # "ODOM"
       \/ Len(parts) < 7
       \/ \E i \in 2..7 : i <= Len(parts) /\ ~IsFloat(parts[i])

\* read_odom(), entry: a port that is not open returns the stored pair at once.
ReadOdomCall ==
    /\ rpc = "idle"
    /\ pre' = Stored
    /\ IF ser # "open"
       THEN /\ ret' = Stored
            /\ outcome' = "closed"
            /\ rpc' = "ret"
       ELSE /\ rpc' = "drain"
            /\ outcome' = "none"
            /\ UNCHANGED ret
    /\ UNCHANGED <<ser, inbuf, wire, latest_odom, latest_vel, line,
                   nRead, allWF, allBad, want>>

\* The line the drain loop keeps after reading raw.
KeepFirst(cur, raw) == IF Complete(raw) /\ cur = "" THEN raw ELSE cur

KeepLine(cur, raw) == IF Complete(raw) THEN raw ELSE cur

\* One turn of `while self.ser.in_waiting > 0`: raw_line = self.ser.readline().
ReadOdomReadline ==
    /\ rpc = "drain"
    /\ inbuf # <<>>
    /\ LET raw_line == Head(inbuf) IN
       /\ inbuf' = Tail(inbuf)
       /\ line' = KeepLine(line, raw_line)
       /\ nRead' = IF nRead < ReadCap THEN nRead + 1 ELSE nRead
       /\ allWF' = (allWF /\ WellFormed(raw_line))
       /\ allBad' = (allBad /\ (Truncated(raw_line) \/ Garbled(raw_line)))
       /\ want' = IF WellFormed(raw_line) THEN FieldsOf(raw_line) ELSE NoPair
    /\ UNCHANGED <<ser, wire, latest_odom, latest_vel, rpc, pre, ret, outcome>>

\* in_waiting is 0: parse the kept line, if any, and return the stored pair.
ReadOdomReturn ==
    /\ rpc = "drain"
    /\ inbuf = <<>>
    /\ LET st == IF line # "" THEN ParseOdomString(Strip(Decode(line)), Stored)
                 ELSE Stored
       IN  /\ latest_odom' = st.odom
           /\ latest_vel' = st.vel
           /\ ret' = st
    /\ outcome' = IF line # "" THEN "parsed" ELSE "noline"
    /\ rpc' = "ret"
    /\ UNCHANGED <<ser, inbuf, wire, line, nRead, allWF, allBad, want, pre>>

\* in_waiting or readline raises: `except Exception`, a warning, the stored pair.
ReadOdomFault ==
    /\ rpc = "drain"
    /\ ret' = Stored
    /\ outcome' = "fault"
    /\ rpc' = "ret"
    /\ UNCHANGED <<ser, inbuf, wire, latest_odom, latest_vel, line,
                   nRead, allWF, allBad, want, pre>>

\* The caller has taken the result: read_odom's frame is gone.
ReadOdomDone ==
    /\ rpc = "ret"
    /\ rpc' = "idle"
    /\ line' = ""
    /\ nRead' = 0
    /\ allWF' = TRUE
    /\ allBad' = TRUE
    /\ want' = NoPair
    /\ pre' = NoPair
    /\ ret' = NoPair
    /\ outcome' = "none"
    /\ UNCHANGED <<ser, inbuf, wire, latest_odom, latest_vel>>

BaseInit ==
    /\ ser = "none"
    /\ inbuf = <<>>
    /\ wire = <<>>
    /\ latest_odom = Zero3
    /\ latest_vel = Zero3
    /\ rpc = "idle"
    /\ line = ""
    /\ nRead = 0
    /\ allWF = TRUE
    /\ allBad = TRUE
    /\ want = NoPair
    /\ pre = NoPair
    /\ ret = NoPair
    /\ outcome = "none"

-----------------------------------------------------------------------------
(* JoystickBaseController.  Axis values are in thousandths (1000 is full
   deflection), speed limits in mm/s and mrad/s, velocities their product. *)

MaxLinearSpeed       == 100     \* max_linear_speed = 0.1
MaxAngularSpeed      == 200     \* max_angular_speed = 0.2
MaxLinearSpeedTurbo  == 200     \* max_linear_speed_turbo = 0.2
MaxAngularSpeedTurbo == 400     \* max_angular_speed_turbo = 0.4
Deadzone             == 150     \* self.deadzone = 0.15

\* Raw stick positions <<axis 0, axis 1, axis 2>> a poll can read.
AxisSet == { <<0, 0, 0>>, <<50, -400, 0>>, <<1000, 149, -150>>, <<-700, 600, 300>> }

\* _apply_deadzone with `<=` for `<`: a value exactly at the deadzone is dropped.
ApplyDeadzoneInclusive(value) == IF Abs(value) <= Deadzone THEN 0 ELSE value

\* _apply_deadzone(value)
ApplyDeadzone(value) == IF Abs(value) < Deadzone THEN 0 ELSE value

\* The velocities get_velocities() computes from the axes and the tier.
JoystickVelocities(axes, numaxes, use_turbo) ==
    LET axis_x     == ApplyDeadzone(axes[1])
        axis_y     == ApplyDeadzone(axes[2])
        axis_twist == ApplyDeadzone(IF numaxes > 2 THEN axes[3] ELSE 0)
        linear_speed  == IF use_turbo THEN MaxLinearSpeedTurbo ELSE MaxLinearSpeed
        angular_speed == IF use_turbo THEN MaxAngularSpeedTurbo ELSE MaxAngularSpeed
    IN  << -axis_y * linear_speed, axis_x * linear_speed, -axis_twist * angular_speed >>

\* connect(): pygame finds a joystick ("found"), finds none ("absent": an
\* error is logged), or raises ("error": caught, the handle is dropped).
JoystickConnect(result) ==
    /\ joystick' = CASE result = "found"  -> "init"
                     [] result = "absent" -> joystick
                     [] result = "error"  -> "none"
    /\ jabsent' = (result = "absent")
    /\ UNCHANGED <<use_toggle_turbo, require_safety_button, turbo_toggled,
                   both_buttons_pressed_last, jvel, polled, prevBoth, curBoth, curEnable,
                   flipped, jout, curAxes, curNum, curTurbo>>

\* disconnect()
JoystickDisconnect ==
    /\ joystick' = "none"
    /\ UNCHANGED <<use_toggle_turbo, require_safety_button, turbo_toggled,
                   both_buttons_pressed_last, jvel, polled, prevBoth, curBoth, curEnable,
                   flipped, jabsent, jout, curAxes, curNum, curTurbo>>

\* The toggle flag after a poll that read both buttons.
ToggleEveryPoll(toggled, last, both) == IF both THEN ~toggled ELSE toggled

ToggleOnEdge(toggled, last, both) == IF both /\ ~last THEN ~toggled ELSE toggled

\* get_velocities(): enable/turbo are the two buttons, axes the stick, fault is
\* a pygame call raising (caught: zero twist).
JoystickGetVelocities(enable_button_pressed, turbo_button_pressed, axes, numaxes, fault) ==
    IF joystick = "none"
    THEN /\ jvel' = Zero3
         /\ jout' = "nohandle"
         /\ UNCHANGED <<joystick, use_toggle_turbo, require_safety_button, turbo_toggled,
                        both_buttons_pressed_last, polled, prevBoth, curBoth, curEnable,
                        flipped, jabsent, curAxes, curNum, curTurbo>>
    ELSE IF fault
    THEN /\ jvel' = Zero3
         /\ jout' = "fault"
         /\ UNCHANGED <<joystick, use_toggle_turbo, require_safety_button, turbo_toggled,
                        both_buttons_pressed_last, polled, prevBoth, curBoth, curEnable,
                        flipped, jabsent, curAxes, curNum, curTurbo>>
    ELSE LET both_buttons_pressed == enable_button_pressed /\ turbo_button_pressed IN
         /\ polled' = TRUE
         /\ prevBoth' = (polled /\ curBoth)
         /\ curBoth' = both_buttons_pressed
         /\ curEnable' = enable_button_pressed
         /\ curTurbo' = turbo_button_pressed
         /\ curAxes' = axes
         /\ curNum' = numaxes
         /\ jout' = IF require_safety_button /\ ~enable_button_pressed
                    THEN "safety" ELSE "mapped"
         /\ IF require_safety_button /\ ~enable_button_pressed
            THEN /\ jvel' = Zero3
                 /\ flipped' = FALSE
                 /\ UNCHANGED <<turbo_toggled, both_buttons_pressed_last>>
            ELSE IF use_toggle_turbo
            THEN /\ turbo_toggled' = ToggleOnEdge(turbo_toggled, both_buttons_pressed_last,
                                                  both_buttons_pressed)
                 /\ flipped' = (turbo_toggled' # turbo_toggled)
                 /\ both_buttons_pressed_last' = both_buttons_pressed
                 /\ jvel' = JoystickVelocities(axes, numaxes, turbo_toggled')
            ELSE /\ jvel' = JoystickVelocities(axes, numaxes, turbo_button_pressed)
                 /\ flipped' = FALSE
                 /\ UNCHANGED <<turbo_toggled, both_buttons_pressed_last>>
         /\ UNCHANGED <<joystick, use_toggle_turbo, require_safety_button, jabsent>>

\* A JoystickBaseController as constructed, with either value of the two flags.
JoyInit ==
    /\ joystick = "none"
    /\ use_toggle_turbo \in BOOLEAN
    /\ require_safety_button \in BOOLEAN
    /\ turbo_toggled = FALSE
    /\ both_buttons_pressed_last = FALSE
    /\ jvel = Zero3
    /\ polled = FALSE
    /\ prevBoth = FALSE
    /\ curBoth = FALSE
    /\ curEnable = FALSE
    /\ flipped = FALSE
    /\ jabsent = FALSE
    /\ jout = "none"
    /\ curAxes = Zero3
    /\ curNum = 3
    /\ curTurbo = FALSE

\* The controller the factory builds, never connected and never polled.
JoyIdle ==
    /\ joystick = "none"
    /\ use_toggle_turbo = TRUE
    /\ require_safety_button = FALSE
    /\ turbo_toggled = FALSE
    /\ both_buttons_pressed_last = FALSE
    /\ jvel = Zero3
    /\ polled = FALSE
    /\ prevBoth = FALSE
    /\ curBoth = FALSE
    /\ curEnable = FALSE
    /\ flipped = FALSE
    /\ jabsent = FALSE
    /\ jout = "none"
    /\ curAxes = Zero3
    /\ curNum = 3
    /\ curTurbo = FALSE

-----------------------------------------------------------------------------
(* MimicFollower.  Maps (dicts) are functions from key strings. *)

EmptyMap == [k \in {} |-> 0]

\* {**a, **b}, dict.update: b's entries win.
Merge(a, b) ==
    [k \in DOMAIN a \cup DOMAIN b |-> IF k \in DOMAIN b THEN b[k] ELSE a[k]]

\* {f"{prefix}{key}": value for key, value in m.items()}
Prefixed(prefix, m) ==
    [k \in {prefix \o j : j \in DOMAIN m} |-> m[RemovePrefix(k, prefix)]]

\* {key.removeprefix(prefix): value for key, value in m.items() if key.startswith(prefix)}
Unprefixed(prefix, m) ==
    [k \in {RemovePrefix(j, prefix) : j \in {i \in DOMAIN m : StartsWith(i, prefix)}}
        |-> m[prefix \o k]]

\* Motor names an arm's bus can have, and camera names a config can give.
MotorSets == { {"gripper"}, {"shoulder_pan", "gripper"} }

CameraSets == { {"top", "wrist"}, {"base_x"}, {"left_gripper.pos", "base_vx"} }

\* (height, width, 3) of a camera's configuration.
CamShape == <<480, 640, 3>>

\* _arm_motors_ft
ArmMotorsFt ==
    Merge([k \in {"left_" \o m \o ".pos" : m \in left_motors} |-> "float"],
          [k \in {"right_" \o m \o ".pos" : m \in right_motors} |-> "float"])

\* _cameras_ft
CamerasFt == [cam \in cameras |-> CamShape]

BaseObsFt == [k \in {"base_x", "base_y", "base_theta"} |-> "float"]

BaseActionFt == [k \in {"base_vx", "base_vy", "base_omega"} |-> "float"]

\* observation_features
ObservationFeatures == Merge(Merge(ArmMotorsFt, BaseObsFt), CamerasFt)

\* action_features
ActionFeatures == Merge(ArmMotorsFt, BaseActionFt)

\* is_connected without the cameras.
IsConnectedNoCameras == left_conn /\ right_conn /\ ser = "open"

\* is_connected
IsConnected ==
    left_conn /\ right_conn /\ ser = "open" /\ \A cam \in cameras : cam \in cams_conn

\* The arms (SOFollower).  get_observation gives one position per motor;
\* send_action writes the goals it is given, each limited to ArmLimit, and
\* returns what it wrote.
ArmGetObservation(motors) == [k \in {m \o ".pos" : m \in motors} |-> 10]

ArmSendAction(arm_action) ==
    [k \in DOMAIN arm_action |-> IF arm_action[k] > 30 THEN 30 ELSE arm_action[k]]

\* action.get(key, 0.0)
GetOrOne(action, key) == IF key \in DOMAIN action THEN action[key] ELSE 1

GetOrZero(action, key) == IF key \in DOMAIN action THEN action[key] ELSE 0

\* The action maps a caller passes: the arm part is empty, one left-arm key,
\* or every arm key; the base part is empty, base_vx alone, or all three keys.
ArmParts ==
    { EmptyMap,
      [k \in {"left_gripper.pos"} |-> 20],
      [k \in DOMAIN ArmMotorsFt |-> 50] }

BaseParts ==
    { EmptyMap,
      [k \in {"base_vx"} |-> 2006],
      [k \in {"base_vx", "base_vy", "base_omega"} |->
          CASE k = "base_vx" -> 2006 [] k = "base_vy" -> -4 [] k = "base_omega" -> 12346] }

ActionSet == { Merge(a, b) : a \in ArmParts, b \in BaseParts }

\* read_odom() run to its end on the lines now in the buffer.
RECURSIVE DrainLine(_, _)
DrainLine(buf, cur) ==
    IF buf = <<>> THEN cur ELSE DrainLine(Tail(buf), KeepLine(cur, Head(buf)))

ReadOdomResult ==
    IF ser # "open" THEN Stored
    ELSE LET l == DrainLine(inbuf, "") IN
         IF l # "" THEN ParseOdomString(Strip(Decode(l)), Stored) ELSE Stored

\* for cam in self.cameras.values(): the cameras that can have been handled
\* when one of them raises (the order is the configuration's).
CamsBefore == (SUBSET cameras) \ {cameras}

\* What a call that raised, or that returns None, leaves in the call record.
NoReturn == /\ faction' = EmptyMap /\ fret' = EmptyMap /\ twist_args' = Zero3

\* connect(calibrate): left arm, right arm, base, cameras.  fail is the first
\* sub-device whose connect raises ("cams": one of the cameras); the call
\* ends there.
FollowerConnect(fail) ==
    /\ fcall' = "connect"
    /\ ffail' = IF fail = "base" /\ ser = "open" THEN "none" ELSE fail
    /\ left_conn' = (left_conn \/ fail # "left")
    /\ right_conn' = (right_conn \/ fail \notin {"left", "right"})
    /\ IF fail \in {"left", "right"}
       THEN UNCHANGED baseVars
       ELSE Connect(fail # "base")
    /\ cams_conn' \in
          IF fail = "none" \/ (fail = "base" /\ ser = "open") THEN {cameras}
          ELSE IF fail = "cams" THEN {cams_conn \cup d : d \in CamsBefore}
          ELSE {cams_conn}
    /\ NoReturn
    /\ UNCHANGED <<left_motors, right_motors, cameras>>

\* get_observation(): left arm, right arm, base odometry, cameras.  An arm
\* that is not connected raises, as does a camera that is not connected.
FollowerGetObservation(fail) ==
    LET failed == IF ~left_conn THEN "left"
                  ELSE IF fail = "left" THEN fail
                  ELSE IF ~right_conn THEN "right"
                  ELSE IF fail = "right" THEN fail
                  ELSE IF ~(cameras \subseteq cams_conn) THEN "cams"
                  ELSE fail
        st == ReadOdomResult
    IN  /\ fcall' = "get_observation"
        /\ rpc = "idle"
        /\ ffail' = failed
        /\ IF failed \in {"left", "right"}
           THEN UNCHANGED <<latest_odom, latest_vel, inbuf>>
           ELSE /\ latest_odom' = st.odom
                /\ latest_vel' = st.vel
                /\ inbuf' = IF ser = "open" THEN <<>> ELSE inbuf
        /\ fret' =
             IF failed # "none" THEN EmptyMap
             ELSE Merge(Merge(Merge(Prefixed("left_", ArmGetObservation(left_motors)),
                                    Prefixed("right_", ArmGetObservation(right_motors))),
                              [k \in {"base_x", "base_y", "base_theta"} |->
                                  CASE k = "base_x" -> st.odom[1]
                                    [] k = "base_y" -> st.odom[2]
                                    [] k = "base_theta" -> st.odom[3]]),
                        [cam \in cameras |-> 255])
        /\ faction' = EmptyMap
        /\ twist_args' = Zero3
        /\ UNCHANGED <<ser, wire, rpc, line, nRead, allWF, allBad, want, pre, ret, outcome>>
        /\ UNCHANGED <<left_motors, right_motors, cameras, left_conn, right_conn, cams_conn>>

\* send_action(action): the base twist first, then the two arms.
FollowerSendAction(action, ok, fail) ==
    LET vx    == GetOrZero(action, "base_vx")
        vy    == GetOrZero(action, "base_vy")
        omega == GetOrZero(action, "base_omega")
        left_action  == Unprefixed("left_", action)
        right_action == Unprefixed("right_", action)
        base_feedback == [k \in {"base_vx", "base_vy", "base_omega"} |->
                             CASE k = "base_vx" -> vx [] k = "base_vy" -> vy
                               [] k = "base_omega" -> omega]
        failed == IF ~left_conn THEN "left"
                  ELSE IF fail = "left" THEN fail
                  ELSE IF ~right_conn THEN "right"
                  ELSE fail
    IN  /\ fcall' = "send_action"
        /\ faction' = action
        /\ SendTwist(vx, vy, omega, ok)
        /\ twist_args' = <<vx, vy, omega>>
        /\ ffail' = failed
        /\ fret' = IF failed # "none" THEN EmptyMap
                   ELSE Merge(Merge(Prefixed("left_", ArmSendAction(left_action)),
                                    Prefixed("right_", ArmSendAction(right_action))),
                              base_feedback)
        /\ UNCHANGED <<left_motors, right_motors, cameras, left_conn, right_conn, cams_conn>>

\* disconnect(): left arm, right arm, base, cameras, one after the other, with
\* no handler around any of them; fail is the first sub-device whose
\* disconnect raises (the base's never does), and the call ends there.
FollowerDisconnect(fail, ok) ==
    /\ fcall' = "disconnect"
    /\ ffail' = fail
    /\ left_conn' = (left_conn /\ fail = "left")
    /\ right_conn' = (right_conn /\ fail \in {"left", "right"})
    /\ IF fail \in {"left", "right"}
       THEN UNCHANGED baseVars
       ELSE Disconnect(ok)
    /\ cams_conn' \in
          IF fail = "none" THEN {{}}
          ELSE IF fail = "cams" THEN {cams_conn \ d : d \in CamsBefore}
          ELSE {cams_conn}
    /\ faction' = EmptyMap
    /\ fret' = EmptyMap
    /\ twist_args' = Zero3
    /\ UNCHANGED <<left_motors, right_motors, cameras>>

\* A MimicFollower as constructed from some configuration.
FolInit ==
    /\ left_motors \in MotorSets
    /\ right_motors \in MotorSets
    /\ cameras \in CameraSets
    /\ left_conn = FALSE
    /\ right_conn = FALSE
    /\ cams_conn = {}
    /\ fcall = "none"
    /\ ffail = "none"
    /\ faction = EmptyMap
    /\ fret = EmptyMap
    /\ twist_args = Zero3

\* No MimicFollower in play.
FolIdle ==
    /\ left_motors = {"gripper"}
    /\ right_motors = {"gripper"}
    /\ cameras = {"top"}
    /\ left_conn = FALSE
    /\ right_conn = FALSE
    /\ cams_conn = {}
    /\ fcall = "none"
    /\ ffail = "none"
    /\ faction = EmptyMap
    /\ fret = EmptyMap
    /\ twist_args = Zero3

-----------------------------------------------------------------------------
(* MimicLeader and the input sources.  Velocities are in millionths, speeds in
   thousandths, axes in thousandths, a held key counts as 1000. *)

LeaderMaxLinearSpeed  == 500
LeaderMaxAngularSpeed == 1000

\* KeyboardBaseController.get_velocities()
KeyboardVelocities(keys, max_linear_speed, max_angular_speed) ==
    << (IF "w" \in keys THEN 1000 * max_linear_speed ELSE 0)
         - (IF "s" \in keys THEN 1000 * max_linear_speed ELSE 0),
       (IF "a" \in keys THEN 1000 * max_linear_speed ELSE 0)
         - (IF "d" \in keys THEN 1000 * max_linear_speed ELSE 0),
       (IF "q" \in keys THEN 1000 * max_angular_speed ELSE 0)
         - (IF "e" \in keys THEN 1000 * max_angular_speed ELSE 0) >>

\* XboxBaseController.get_velocities() selecting turbo only while LB is held
\* as well.
XboxVelocitiesTurboWithEnable(p) ==
    IF ~p.enable /\ ~p.turbo THEN Zero3
    ELSE LET use_turbo == p.enable /\ p.turbo
             left_x  == IF Abs(p.axes[1]) < Deadzone THEN 0 ELSE p.axes[1]
             left_y  == IF Abs(p.axes[2]) < Deadzone THEN 0 ELSE p.axes[2]
             right_x == IF Abs(p.axes[3]) < Deadzone THEN 0 ELSE p.axes[3]
             linear_speed  == IF use_turbo THEN MaxLinearSpeedTurbo ELSE MaxLinearSpeed
             angular_speed == IF use_turbo THEN MaxAngularSpeedTurbo ELSE MaxAngularSpeed
         IN  << -left_y * linear_speed, -left_x * linear_speed, -right_x * angular_speed >>

\* XboxBaseController.get_velocities() on a connected gamepad p.
XboxVelocities(p) ==
    IF ~p.enable /\ ~p.turbo THEN Zero3
    ELSE LET use_turbo == p.turbo
             left_x  == IF Abs(p.axes[1]) < Deadzone THEN 0 ELSE p.axes[1]
             left_y  == IF Abs(p.axes[2]) < Deadzone THEN 0 ELSE p.axes[2]
             right_x == IF Abs(p.axes[3]) < Deadzone THEN 0 ELSE p.axes[3]
             linear_speed  == IF use_turbo THEN MaxLinearSpeedTurbo ELSE MaxLinearSpeed
             angular_speed == IF use_turbo THEN MaxAngularSpeedTurbo ELSE MaxAngularSpeed
         IN  << -left_y * linear_speed, -left_x * linear_speed, -right_x * angular_speed >>

\* The keys of the keyboard: letters as typed, and "shift", which has no char.
KeySet == {"w", "S", "e", "shift"}

KeyChar(key) == IF key = "shift" THEN "" ELSE key

\* str.lower()
Lower(c) ==
    CASE c = "W" -> "w" [] c = "S" -> "s" [] c = "A" -> "a"
      [] c = "D" -> "d" [] c = "Q" -> "q" [] c = "E" -> "e" [] OTHER -> c

\* What a gamepad can show: the two enable buttons and the axes 0, 1, 3.
PadSet ==
    { [enable |-> FALSE, turbo |-> FALSE, axes |-> <<0, 0, 0>>],
      [enable |-> FALSE, turbo |-> FALSE, axes |-> <<0, -1000, 0>>],
      [enable |-> FALSE, turbo |-> TRUE,  axes |-> <<0, -1000, 0>>],
      [enable |-> TRUE,  turbo |-> FALSE, axes |-> <<0, -1000, 0>>],
      [enable |-> TRUE,  turbo |-> FALSE, axes |-> <<149, 0, -150>>],
      [enable |-> TRUE,  turbo |-> TRUE,  axes |-> <<-700, 600, 300>>] }

\* The keys get_velocities() tests, in its order.
KeyOrder == <<"w", "s", "a", "d", "q", "e">>

KeyTwist(keys) == KeyboardVelocities(keys, MaxLinearSpeed, MaxAngularSpeed)

\* KeyboardBaseController.connect(), called by the control thread, so not while
\* that thread is inside get_velocities()
KbConnect ==
    /\ kpc \in {0, 7}
    /\ kb_listener' = IF kb_pynput THEN "alive" ELSE kb_listener
    /\ UNCHANGED <<kb_pynput, pressed_keys, kpc, kacc, kret, kseen, kconn>>

\* KeyboardBaseController.disconnect(), by the control thread as well
KbDisconnect ==
    /\ kpc \in {0, 7}
    /\ kb_listener' = "none"
    /\ UNCHANGED <<kb_pynput, pressed_keys, kpc, kacc, kret, kseen, kconn>>

\* KeyboardBaseController.is_connected()
KeyboardIsConnected == kb_pynput /\ kb_listener = "alive"

\* _on_key_press(key) / _on_key_release(key), run by the listener thread at
\* any time, also between two statements of get_velocities().
KbKeyEvent(key, down) ==
    LET keys == IF KeyChar(key) = "" THEN pressed_keys
                ELSE IF down THEN pressed_keys \cup {Lower(KeyChar(key))}
                ELSE pressed_keys \ {Lower(KeyChar(key))}
    IN  /\ kb_listener = "alive"
        /\ pressed_keys' = keys
        /\ kseen' = IF kpc \in 1..6 THEN kseen \cup {KeyTwist(keys)} ELSE kseen
        /\ UNCHANGED <<kb_pynput, kb_listener, kpc, kacc, kret, kconn>>

\* get_velocities(): vx, vy, omega = 0.0, 0.0, 0.0
KbGetVelocitiesCall ==
    /\ kpc \in {0, 7}
    /\ kpc' = 1
    /\ kacc' = Zero3
    /\ kret' = Zero3
    /\ kseen' = {KeyTwist(pressed_keys)}
    /\ kconn' = KeyboardIsConnected
    /\ UNCHANGED <<kb_pynput, kb_listener, pressed_keys>>

\* get_velocities(): one `if key in self.pressed_keys: v += / -= speed`; the
\* sixth is followed by the return.
KbGetVelocitiesStep ==
    LET key  == KeyOrder[kpc]
        hit  == key \in pressed_keys
        lin  == 1000 * MaxLinearSpeed
        ang  == 1000 * MaxAngularSpeed
        acc  == CASE key = "w" -> <<kacc[1] + lin, kacc[2], kacc[3]>>
                  [] key = "s" -> <<kacc[1] - lin, kacc[2], kacc[3]>>
                  [] key = "a" -> <<kacc[1], kacc[2] + lin, kacc[3]>>
                  [] key = "d" -> <<kacc[1], kacc[2] - lin, kacc[3]>>
                  [] key = "q" -> <<kacc[1], kacc[2], kacc[3] + ang>>
                  [] key = "e" -> <<kacc[1], kacc[2], kacc[3] - ang>>
        next == IF hit THEN acc ELSE kacc
    IN  /\ kpc \in 1..6
        /\ kacc' = next
        /\ kpc' = kpc + 1
        /\ kret' = IF kpc = 6 THEN next ELSE kret
        /\ UNCHANGED <<kb_pynput, kb_listener, pressed_keys, kseen, kconn>>

\* A KeyboardBaseController as constructed.
KbInit ==
    /\ kb_pynput \in BOOLEAN
    /\ kb_listener = "none"
    /\ pressed_keys = {}
    /\ kpc = 0
    /\ kacc = Zero3
    /\ kret = Zero3
    /\ kseen = {}
    /\ kconn = FALSE

\* No KeyboardBaseController in play.
KbIdle ==
    /\ kb_pynput = FALSE
    /\ kb_listener = "none"
    /\ pressed_keys = {}
    /\ kpc = 0
    /\ kacc = Zero3
    /\ kret = Zero3
    /\ kseen = {}
    /\ kconn = FALSE

NeutralPad == [enable |-> FALSE, turbo |-> FALSE, axes |-> <<0, 0, 0>>]

\* XboxBaseController.connect(): returns at once without pygame, logs an error
\* and returns when no gamepad is counted, else takes gamepad 0.
XboxConnect(count) ==
    /\ xcall' = "connect"
    /\ xout' = "returned"
    /\ xcount' = count
    /\ xjoystick' = IF pygame_available /\ count > 0 THEN "init" ELSE xjoystick
    /\ UNCHANGED <<pygame_available, xvel, xpad>>

\* XboxBaseController.disconnect(): quits the handle but keeps it, then calls
\* pygame.joystick.quit() (pygame is None when the import failed).
XboxDisconnect ==
    /\ xcall' = "disconnect"
    /\ xjoystick' = IF xjoystick = "none" THEN "none" ELSE "quit"
    /\ xout' = IF pygame_available THEN "returned" ELSE "raised"
    /\ UNCHANGED <<pygame_available, xvel, xpad, xcount>>

\* XboxBaseController.get_velocities() with the gamepad showing p.  Reading a
\* button of a handle that was quit raises pygame.error; nothing catches it.
XboxGetVelocities(p) ==
    /\ xcall' = "get_velocities"
    /\ xpad' = p
    /\ xout' = IF xjoystick = "quit" THEN "raised" ELSE "returned"
    /\ xvel' = IF xjoystick = "init" THEN XboxVelocities(p) ELSE Zero3
    /\ UNCHANGED <<xjoystick, pygame_available, xcount>>

\* XboxBaseController.is_connected()
XboxIsConnected == xjoystick # "none"

\* JoystickBaseController.is_connected()
JoystickIsConnected == joystick # "none"

\* An XboxBaseController as constructed.
XboxInit ==
    /\ xjoystick = "none"
    /\ pygame_available \in BOOLEAN
    /\ xcall = "none"
    /\ xout = "none"
    /\ xvel = Zero3
    /\ xpad = NeutralPad
    /\ xcount = 0

\* No XboxBaseController in play.
XboxIdle ==
    /\ xjoystick = "none"
    /\ pygame_available = TRUE
    /\ xcall = "none"
    /\ xout = "none"
    /\ xvel = Zero3
    /\ xpad = NeutralPad
    /\ xcount = 0

\* The motors of a leader arm, and its get_action(): one position per motor.
LeaderMotors == {"shoulder_pan", "gripper"}

LeaderArmGetAction == [k \in {m \o ".pos" : m \in LeaderMotors} |-> 10]

\* MimicLeader.action_features
LeaderActionFeatures ==
    Merge(Merge([k \in {"left_" \o m \o ".pos" : m \in LeaderMotors} |-> "float"],
                [k \in {"right_" \o m \o ".pos" : m \in LeaderMotors} |-> "float"]),
          [k \in {"base_vx", "base_vy", "base_omega"} |-> "float"])

\* _get_base_action() giving its keys in the keyboard branch only.
GetBaseActionKeyboardOnly ==
    IF base_control_mode = "keyboard"
    THEN [k \in {"base_vx", "base_vy", "base_omega"} |-> 0]
    ELSE EmptyMap

\* _get_base_action()
GetBaseAction ==
    LET ks == base_pressed_keys
        vx == IF base_control_mode = "keyboard"
              THEN (IF "w" \in ks THEN 1000 * LeaderMaxLinearSpeed ELSE 0)
                   - (IF "s" \in ks THEN 1000 * LeaderMaxLinearSpeed ELSE 0)
              ELSE 0
        vy == IF base_control_mode = "keyboard"
              THEN (IF "a" \in ks THEN 1000 * LeaderMaxLinearSpeed ELSE 0)
                   - (IF "d" \in ks THEN 1000 * LeaderMaxLinearSpeed ELSE 0)
              ELSE 0
        omega == IF base_control_mode = "keyboard"
                 THEN (IF "q" \in ks THEN 1000 * LeaderMaxAngularSpeed ELSE 0)
                      - (IF "e" \in ks THEN 1000 * LeaderMaxAngularSpeed ELSE 0)
                 ELSE 0
    IN  [k \in {"base_vx", "base_vy", "base_omega"} |->
            CASE k = "base_vx" -> vx [] k = "base_vy" -> vy [] k = "base_omega" -> omega]

\* connect(calibrate): the two arms, then the keyboard listener if the mode
\* is keyboard and pynput was imported.
LeaderConnect(fail) ==
    /\ lcall' = "connect"
    /\ lfail' = fail
    /\ lead_left_conn' = (lead_left_conn \/ fail # "left")
    /\ lead_right_conn' = (lead_right_conn \/ fail = "none")
    /\ key_listener' = IF fail = "none" /\ base_control_mode = "keyboard" /\ pynput_available
                       THEN "alive" ELSE key_listener
    /\ lret' = EmptyMap
    /\ UNCHANGED <<base_control_mode, pynput_available, base_pressed_keys, pad>>

\* _on_key_press(key), called by a running listener.
OnKeyPress(key) ==
    /\ key_listener = "alive"
    /\ base_pressed_keys' = IF KeyChar(key) # ""
                            THEN base_pressed_keys \cup {Lower(KeyChar(key))}
                            ELSE base_pressed_keys
    /\ lcall' = "none"
    /\ lfail' = "none"
    /\ lret' = EmptyMap
    /\ UNCHANGED <<base_control_mode, pynput_available, key_listener, pad,
                   lead_left_conn, lead_right_conn>>

\* _on_key_release(key)
OnKeyRelease(key) ==
    /\ key_listener = "alive"
    /\ base_pressed_keys' = IF KeyChar(key) # ""
                            THEN base_pressed_keys \ {Lower(KeyChar(key))}
                            ELSE base_pressed_keys
    /\ lcall' = "none"
    /\ lfail' = "none"
    /\ lret' = EmptyMap
    /\ UNCHANGED <<base_control_mode, pynput_available, key_listener, pad,
                   lead_left_conn, lead_right_conn>>

\* The operator moves the gamepad's sticks or buttons.
PadMove(p) ==
    /\ p # pad
    /\ pad' = p
    /\ lcall' = "none"
    /\ lfail' = "none"
    /\ lret' = EmptyMap
    /\ UNCHANGED <<base_control_mode, pynput_available, key_listener, base_pressed_keys,
                   lead_left_conn, lead_right_conn>>

\* get_action(): the base action, then the left and the right arm's actions
\* under their prefixes.  An arm that is not connected raises.
LeaderGetAction(fail) ==
    LET failed == IF ~lead_left_conn THEN "left"
                  ELSE IF fail = "left" THEN fail
                  ELSE IF ~lead_right_conn THEN "right"
                  ELSE fail
    IN  /\ lcall' = "get_action"
        /\ lfail' = failed
        /\ lret' = IF failed # "none" THEN EmptyMap
                   ELSE Merge(Merge(GetBaseAction, Prefixed("left_", LeaderArmGetAction)),
                              Prefixed("right_", LeaderArmGetAction))
        /\ UNCHANGED <<base_control_mode, pynput_available, key_listener, base_pressed_keys,
                       pad, lead_left_conn, lead_right_conn>>

\* disconnect(): the two arms, then the listener is stopped and dropped.
LeaderDisconnect(fail) ==
    /\ lcall' = "disconnect"
    /\ lfail' = fail
    /\ lead_left_conn' = (lead_left_conn /\ fail = "left")
    /\ lead_right_conn' = (lead_right_conn /\ fail # "none")
    /\ key_listener' = IF fail = "none" THEN "none" ELSE key_listener
    /\ lret' = EmptyMap
    /\ UNCHANGED <<base_control_mode, pynput_available, base_pressed_keys, pad>>

\* A MimicLeader as constructed from some configuration.
LeadInit ==
    /\ base_control_mode \in {"keyboard", "xbox", "joystick", "none"}
    /\ pynput_available \in BOOLEAN
    /\ key_listener = "none"
    /\ base_pressed_keys = {}
    /\ pad = [enable |-> FALSE, turbo |-> FALSE, axes |-> <<0, 0, 0>>]
    /\ lead_left_conn = FALSE
    /\ lead_right_conn = FALSE
    /\ lcall = "none"
    /\ lfail = "none"
    /\ lret = EmptyMap

\* No MimicLeader in play.
LeadIdle ==
    /\ base_control_mode = "none"
    /\ pynput_available = FALSE
    /\ key_listener = "none"
    /\ base_pressed_keys = {}
    /\ pad = [enable |-> FALSE, turbo |-> FALSE, axes |-> <<0, 0, 0>>]
    /\ lead_left_conn = FALSE
    /\ lead_right_conn = FALSE
    /\ lcall = "none"
    /\ lfail = "none"
    /\ lret = EmptyMap

-----------------------------------------------------------------------------
(* The control-loop scripts: run_policy.py, continus_runtime_smolvla.py
   (runtime_task.py has the same shape) and test_base.py. *)

ScriptSet == {"run_policy", "continuous", "test_base"}

\* Where an exception or a KeyboardInterrupt raised at position pc takes
\* main(): into the finally block if pc is inside a try, out of the program
\* otherwise.
Unwind(pc) ==
    CASE script = "run_policy" -> IF pc = "pre" THEN "exited" ELSE "finally"
      [] script = "continuous" -> "exited"
      [] script = "test_base"  -> "finally"

\* robot.connect(calibrate=False) / base.connect()
LoopConnect(fail) ==
    /\ lpc = "start"
    /\ IF script = "test_base"
       THEN /\ fail \in {"none", "base"}
            /\ Connect(fail = "none")
            /\ UNCHANGED folVars
       ELSE FollowerConnect(fail)
    /\ connected' = (fail = "none")
    /\ lpc' = IF fail # "none" THEN "exited"
              ELSE IF script = "run_policy" THEN "pre" ELSE "observe"
    /\ how' = IF fail # "none" THEN "exception" ELSE "none"
    /\ UNCHANGED <<script, disc_called, steps>>

\* run_policy.py: the camera check between connect() and the try block.
LoopPreCheck(fail) ==
    /\ lpc = "pre"
    /\ FollowerGetObservation(fail)
    /\ lpc' = IF ffail' # "none" THEN Unwind("pre") ELSE "observe"
    /\ how' = IF ffail' # "none" THEN "exception" ELSE "none"
    /\ UNCHANGED <<script, connected, disc_called, steps>>

\* obs = robot.get_observation() at the top of the loop body.
LoopObserve(fail) ==
    /\ lpc = "observe"
    /\ script # "test_base"
    /\ FollowerGetObservation(fail)
    /\ lpc' = IF ffail' # "none" THEN Unwind("observe") ELSE "act"
    /\ how' = IF ffail' # "none" THEN "exception" ELSE "none"
    /\ UNCHANGED <<script, connected, disc_called, steps>>

\* robot.send_action(...) at the end of the loop body.
LoopAct(action, fail) ==
    /\ lpc = "act"
    /\ FollowerSendAction(action, TRUE, fail)
    /\ lpc' = IF ffail' # "none" THEN Unwind("act") ELSE "observe"
    /\ how' = IF ffail' # "none" THEN "exception" ELSE "none"
    /\ UNCHANGED <<script, connected, disc_called, steps>>

\* A step of the loop body other than a robot call raises (state vector,
\* image processing, the policy).
LoopFault ==
    /\ lpc \in {"observe", "act"}
    /\ script # "test_base"
    /\ lpc' = Unwind(lpc)
    /\ how' = "exception"
    /\ UNCHANGED <<script, connected, disc_called, steps, baseVars, folVars>>

\* test_base.py: one iteration, send_twist(0.2, 0.0, 0.0) then read_odom().
LoopDrive(ok) ==
    /\ lpc = "observe"
    /\ script = "test_base"
    /\ steps < MaxSteps
    /\ rpc = "idle"
    /\ wire' = SentWire(2000, 0, 0, ok)
    /\ latest_odom' = ReadOdomResult.odom
    /\ latest_vel' = ReadOdomResult.vel
    /\ inbuf' = IF ser = "open" THEN <<>> ELSE inbuf
    /\ steps' = steps + 1
    /\ UNCHANGED <<ser, rpc, line, nRead, allWF, allBad, want, pre, ret, outcome>>
    /\ UNCHANGED <<script, lpc, how, connected, disc_called, folVars>>

\* test_base.py: the loop is over, send_twist(0.0, 0.0, 0.0).
LoopStop(ok) ==
    /\ lpc = "observe"
    /\ script = "test_base"
    /\ steps = MaxSteps
    /\ SendTwist(0, 0, 0, ok)
    /\ lpc' = "finally"
    /\ how' = "normal"
    /\ UNCHANGED <<script, connected, disc_called, steps, folVars>>

\* Ctrl+C while main() is between connect() and its end.
LoopInterrupt ==
    /\ lpc \in {"pre", "observe", "act"}
    /\ lpc' = Unwind(lpc)
    /\ how' = "interrupt"
    /\ UNCHANGED <<script, connected, disc_called, steps, baseVars, folVars>>

\* finally: robot.disconnect() / base.disconnect()
LoopFinally(fail, ok) ==
    /\ lpc = "finally"
    /\ IF script = "test_base"
       THEN /\ fail = "none"
            /\ Disconnect(ok)
            /\ UNCHANGED folVars
       ELSE FollowerDisconnect(fail, ok)
    /\ disc_called' = TRUE
    /\ lpc' = "exited"
    /\ UNCHANGED <<script, how, connected, steps>>

\* MecanumBase.__del__: after main() is left the interpreter may finalize the
\* base object, or may not.
BaseDel(ok) ==
    /\ lpc = "exited"
    /\ Disconnect(ok)
    /\ lpc' = "collected"
    /\ UNCHANGED <<script, how, connected, disc_called, steps, folVars>>

\* One of the scripts is started.
LoopInit ==
    /\ script \in ScriptSet
    /\ lpc = "start"
    /\ how = "none"
    /\ connected = FALSE
    /\ disc_called = FALSE
    /\ steps = 0

\* No script running.
LoopIdle ==
    /\ script = "test_base"
    /\ lpc = "start"
    /\ how = "none"
    /\ connected = FALSE
    /\ disc_called = FALSE
    /\ steps = 0

-----------------------------------------------------------------------------
(* A caller of MecanumBase. *)

UseIdle ==
    /\ bcall = "none"
    /\ bline = ""
    /\ held = "none"
    /\ seen = NoPair

\* The microcontroller sends a line.
UseDeliver(l) ==
    /\ Deliver(l)
    /\ bcall' = "deliver"
    /\ UNCHANGED <<bline, held, seen>>

\* base.connect()
UseConnect(opened) ==
    /\ Connect(opened)
    /\ bcall' = "connect"
    /\ UNCHANGED <<bline, held, seen>>

\* base.send_twist(vx, vy, omega)
UseSendTwist(vx, vy, omega, ok) ==
    /\ SendTwist(vx, vy, omega, ok)
    /\ bcall' = "send_twist"
    /\ UNCHANGED <<bline, held, seen>>

\* base.disconnect()
UseDisconnect(ok) ==
    /\ Disconnect(ok)
    /\ bcall' = "disconnect"
    /\ UNCHANGED <<bline, held, seen>>

\* What the arrays the caller holds contain now.  read_odom() returns
\* self._latest_odom and self._latest_vel themselves, and _parse_odom_string
\* assigns into them in place, so they are the driver's stored pair.
HeldValue == IF held = "driver" THEN Stored ELSE seen

\* odom, vel = base.read_odom(), the whole call.  fault: in_waiting or
\* readline raises after some of the lines were read.  rebind: the caller
\* assigns the result to the names that held the earlier result; otherwise it
\* keeps the earlier result and stores this one elsewhere.
UseReadOdom(fault, rebind) ==
    LET kept == IF ser = "open" /\ ~fault THEN DrainLine(inbuf, "") ELSE ""
        st   == IF fault THEN Stored ELSE ReadOdomResult
    IN  /\ rpc = "idle"
        /\ fault => ser = "open"
        /\ latest_odom' = st.odom
        /\ latest_vel' = st.vel
        /\ inbuf' \in IF ser # "open" THEN {inbuf}
                      ELSE IF fault THEN {SubSeq(inbuf, i, Len(inbuf)) : i \in 1..(Len(inbuf) + 1)}
                      ELSE {<<>>}
        /\ outcome' = IF ser # "open" THEN "closed"
                      ELSE IF fault THEN "fault"
                      ELSE IF kept # "" THEN "parsed" ELSE "noline"
        /\ bcall' = "read_odom"
        /\ bline' = kept
        /\ held' = "driver"
        /\ seen' = IF held = "none" \/ rebind THEN st ELSE seen
        /\ UNCHANGED <<ser, wire, rpc, line, nRead, allWF, allBad, want, pre, ret>>

\* The caller assigns into the arrays it was handed: odom[0] = v, vel[0] = v.
UseWrite(v) ==
    /\ held = "driver"
    /\ latest_odom' = [latest_odom EXCEPT ![1] = v]
    /\ latest_vel' = [latest_vel EXCEPT ![1] = v]
    /\ seen' = [odom |-> [seen.odom EXCEPT ![1] = v], vel |-> [seen.vel EXCEPT ![1] = v]]
    /\ bcall' = "write"
    /\ UNCHANGED <<ser, inbuf, wire, rpc, line, nRead, allWF, allBad, want, pre,
                   ret, outcome, bline, held>>

-----------------------------------------------------------------------------
(* The driver's telemetry side: the control thread connects, reads and
   disconnects; the microcontroller delivers lines at any time. *)

OdomNext ==
    \/ \E l \in LineSet : Deliver(l)
    \/ \E opened \in BOOLEAN : Connect(opened)
    \/ \E ok \in BOOLEAN : Disconnect(ok)
    \/ ReadOdomCall
    \/ ReadOdomReadline
    \/ ReadOdomReturn
    \/ ReadOdomFault
    \/ ReadOdomDone

OdomInit == BaseInit /\ JoyIdle /\ FolIdle /\ LeadIdle /\ LoopIdle /\ XboxIdle /\ KbIdle /\ UseIdle

SpecOdom ==
    OdomInit /\ [][OdomNext /\ UNCHANGED <<joyVars, folVars, leadVars, loopVars, xboxVars, kbVars, useVars>>]_vars

\* What a step of the drain loop is to the scheduler.  DrainTurn is the loop
\* test finding bytes and the readline() that follows it: within OdomNext the
\* steps that satisfy it are exactly the ReadOdomReadline steps, and it is
\* enabled exactly when ReadOdomReadline is.  DrainExit is the loop test
\* finding nothing and the normal return: the ReadOdomReturn steps.
DrainTurn ==
    /\ rpc = "drain"
    /\ inbuf # <<>>
    /\ inbuf' = Tail(inbuf)

DrainExit ==
    /\ rpc = "drain"
    /\ inbuf = <<>>
    /\ rpc' = "ret"
    /\ outcome' \in {"parsed", "noline"}

\* SpecOdom with the control thread always getting to run its next step of
\* read_odom(): a step that stays possible is eventually taken.  Nothing is
\* assumed of the microcontroller.
SpecOdomLive ==
    /\ OdomInit
    /\ [][OdomNext /\ UNCHANGED <<joyVars, folVars, leadVars, loopVars, xboxVars, kbVars, useVars>>]_vars
    /\ WF_inbuf(DrainTurn)
    /\ WF_<<rpc, outcome>>(DrainExit)

(* The driver's command side: connect, send_twist, disconnect. *)

WireNext ==
    \/ \E opened \in BOOLEAN : Connect(opened)
    \/ \E t \in TwistSet, ok \in BOOLEAN : SendTwist(t[1], t[2], t[3], ok)
    \/ \E ok \in BOOLEAN : Disconnect(ok)

WireInit == BaseInit /\ JoyIdle /\ FolIdle /\ LeadIdle /\ LoopIdle /\ XboxIdle /\ KbIdle /\ UseIdle

SpecWire ==
    WireInit /\ [][WireNext /\ UNCHANGED <<joyVars, folVars, leadVars, loopVars, xboxVars, kbVars, useVars>>]_vars

(* A MecanumBase and its caller. *)

UseLines == { "ODOM,1,2,3,4,5,6\n", "ODOMX,7,7,7,7,7,7\n" }

UseNext ==
    \/ \E l \in UseLines : UseDeliver(l)
    \/ \E opened \in BOOLEAN : UseConnect(opened)
    \/ \E ok \in {TRUE} : UseSendTwist(2006, -4, 0, ok)
    \/ \E ok \in {TRUE} : UseDisconnect(ok)
    \/ \E fault \in BOOLEAN, rebind \in BOOLEAN : UseReadOdom(fault, rebind)
    \/ UseWrite(9)

UseInit == BaseInit /\ JoyIdle /\ FolIdle /\ LeadIdle /\ LoopIdle /\ XboxIdle /\ KbIdle /\ UseIdle

SpecUse ==
    UseInit /\ [][UseNext /\ UNCHANGED <<joyVars, folVars, leadVars, loopVars, xboxVars, kbVars>>]_vars

(* A caller that connects once and then only reads telemetry, whatever the
   microcontroller sends. *)

DrainNext ==
    \/ \E l \in LineSet : UseDeliver(l)
    \/ \E opened \in BOOLEAN : UseConnect(opened)
    \/ \E fault \in BOOLEAN, rebind \in {TRUE} : UseReadOdom(fault, rebind)

DrainInit == BaseInit /\ JoyIdle /\ FolIdle /\ LeadIdle /\ LoopIdle /\ XboxIdle /\ KbIdle /\ UseIdle

SpecDrain ==
    DrainInit /\ [][DrainNext /\ UNCHANGED <<joyVars, folVars, leadVars, loopVars, xboxVars, kbVars>>]_vars

(* A JoystickBaseController polled by the control loop. *)

JoyNext ==
    \/ \E result \in {"found", "absent", "error"} : JoystickConnect(result)
    \/ JoystickDisconnect
    \/ \E e \in BOOLEAN, t \in BOOLEAN, axes \in AxisSet, n \in {2, 3}, fault \in BOOLEAN :
          JoystickGetVelocities(e, t, axes, n, fault)

JoySpecInit == BaseInit /\ JoyInit /\ FolIdle /\ LeadIdle /\ LoopIdle /\ XboxIdle /\ KbIdle /\ UseIdle

SpecJoy ==
    JoySpecInit /\ [][JoyNext /\ UNCHANGED <<baseVars, folVars, leadVars, loopVars, xboxVars, kbVars, useVars>>]_vars

(* A MimicFollower driven by its caller. *)

FolNext ==
    \/ \E fail \in {"none", "left", "right", "base", "cams"} : FollowerConnect(fail)
    \/ \E fail \in {"none", "left", "right", "cams"} : FollowerGetObservation(fail)
    \/ \E action \in ActionSet, ok \in {TRUE}, fail \in {"none", "left", "right"} :
          FollowerSendAction(action, ok, fail)
    \/ \E fail \in {"none", "left", "right", "cams"}, ok \in BOOLEAN :
          FollowerDisconnect(fail, ok)

FollowerInit == BaseInit /\ JoyIdle /\ FolInit /\ LeadIdle /\ LoopIdle /\ XboxIdle /\ KbIdle /\ UseIdle

SpecFollower ==
    FollowerInit /\ [][FolNext /\ UNCHANGED <<joyVars, leadVars, loopVars, xboxVars, kbVars, useVars>>]_vars

(* A MimicFollower being connected and disconnected. *)

LinkNext ==
    \/ \E fail \in {"none", "left", "right", "base", "cams"} : FollowerConnect(fail)
    \/ \E fail \in {"none", "left", "right", "cams"}, ok \in BOOLEAN :
          FollowerDisconnect(fail, ok)

SpecLink ==
    FollowerInit /\ [][LinkNext /\ UNCHANGED <<joyVars, leadVars, loopVars, xboxVars, kbVars, useVars>>]_vars

(* An XboxBaseController polled by the control loop. *)

XboxNext ==
    \/ \E count \in {0, 1} : XboxConnect(count)
    \/ XboxDisconnect
    \/ \E p \in PadSet : XboxGetVelocities(p)

XboxSpecInit == BaseInit /\ JoyIdle /\ FolIdle /\ LeadIdle /\ LoopIdle /\ XboxInit /\ KbIdle /\ UseIdle

SpecXbox ==
    XboxSpecInit
      /\ [][XboxNext /\ UNCHANGED <<baseVars, joyVars, folVars, leadVars, loopVars, kbVars, useVars>>]_vars

(* The gamepad controller create_base_controller(mode) builds, "xbox" or
   "joystick" (there with either value of its two flags), polled by the
   control loop. *)

PadNext ==
    \/ base_control_mode = "joystick" /\ JoyNext /\ UNCHANGED xboxVars
    \/ base_control_mode = "xbox" /\ XboxNext /\ UNCHANGED joyVars

PadInit ==
    /\ BaseInit /\ FolIdle /\ LoopIdle /\ KbIdle /\ UseIdle
    /\ \/ base_control_mode = "joystick" /\ JoyInit /\ XboxIdle
       \/ base_control_mode = "xbox" /\ JoyIdle /\ XboxInit
    /\ pynput_available = FALSE
    /\ key_listener = "none"
    /\ base_pressed_keys = {}
    /\ pad = NeutralPad
    /\ lead_left_conn = FALSE
    /\ lead_right_conn = FALSE
    /\ lcall = "none"
    /\ lfail = "none"
    /\ lret = EmptyMap

SpecPad ==
    PadInit /\ [][PadNext /\ UNCHANGED <<baseVars, folVars, leadVars, loopVars, kbVars, useVars>>]_vars

(* A KeyboardBaseController: the control thread and the listener thread. *)

KbNext ==
    \/ KbConnect
    \/ KbDisconnect
    \/ \E key \in KeySet, down \in BOOLEAN : KbKeyEvent(key, down)
    \/ KbGetVelocitiesCall
    \/ KbGetVelocitiesStep

KbSpecInit == BaseInit /\ JoyIdle /\ FolIdle /\ LeadIdle /\ LoopIdle /\ XboxIdle /\ KbInit /\ UseIdle

SpecKeys ==
    KbSpecInit
      /\ [][KbNext /\ UNCHANGED <<baseVars, joyVars, folVars, leadVars, loopVars, xboxVars, useVars>>]_vars

(* A MimicLeader and its operator. *)

LeadNext ==
    \/ \E fail \in {"none", "left", "right"} : LeaderConnect(fail)
    \/ \E key \in KeySet : OnKeyPress(key)
    \/ \E key \in KeySet : OnKeyRelease(key)
    \/ \E p \in PadSet : PadMove(p)
    \/ \E fail \in {"none", "left", "right"} : LeaderGetAction(fail)
    \/ \E fail \in {"none", "left", "right"} : LeaderDisconnect(fail)

\* The leader beside a follower of some configuration.
LeaderInit == BaseInit /\ JoyIdle /\ FolInit /\ LeadInit /\ LoopIdle /\ XboxIdle /\ KbIdle /\ UseIdle

SpecLeader ==
    LeaderInit /\ [][LeadNext /\ UNCHANGED <<baseVars, joyVars, folVars, loopVars, xboxVars, kbVars, useVars>>]_vars

(* A control-loop script from its start to its end. *)

LoopNext ==
    \/ \E fail \in {"none", "left", "right", "base", "cams"} : LoopConnect(fail)
    \/ \E fail \in {"none", "left", "right", "cams"} : LoopPreCheck(fail)
    \/ \E fail \in {"none", "left", "right", "cams"} : LoopObserve(fail)
    \/ \E action \in ActionSet, fail \in {"none", "left", "right"} : LoopAct(action, fail)
    \/ LoopFault
    \/ \E ok \in BOOLEAN : LoopDrive(ok)
    \/ \E ok \in BOOLEAN : LoopStop(ok)
    \/ LoopInterrupt
    \/ \E fail \in {"none", "left", "right", "cams"}, ok \in BOOLEAN : LoopFinally(fail, ok)
    \/ \E ok \in BOOLEAN : BaseDel(ok)

LoopSpecInit == BaseInit /\ JoyIdle /\ FolIdle /\ LeadIdle /\ LoopInit /\ XboxIdle /\ KbIdle /\ UseIdle

SpecLoop ==
    LoopSpecInit /\ [][LoopNext /\ UNCHANGED <<joyVars, leadVars, xboxVars, kbVars, useVars>>]_vars

-----------------------------------------------------------------------------
(* Claims about MecanumBase. *)

\* C1: when every line one read_odom() call on an open port read was a
\* well-formed, newline-terminated ODOM line, and there were N >= 1 of them,
\* the pose and velocity the call returns are those of the last line read.
C1_FreshestPacket ==
    (rpc = "ret" /\ outcome = "parsed" /\ nRead >= 1 /\ allWF) => ret = want

\* C1, witness: a call that read two or more well-formed lines and returned
\* the last one's values, which differ from what was stored before.
C1_Witness ==
    /\ rpc = "ret" /\ outcome = "parsed" /\ nRead >= 2 /\ allWF
    /\ ret = want /\ ret # pre /\ pre # NoPair

ZeroTwistLine == "TWIST,0.000,0.000,0.000\n"

\* C2: a close of the port is always directly preceded by a write of the line
\* TWIST,0.000,0.000,0.000\n, and whenever the port is closed, that write and
\* the close are the last two events on the port, whatever was commanded before.
C2_FailSafeDisconnect ==
    /\ \A i \in 1..Len(wire) :
          (wire[i].op = "close" /\ i > 1) =>
              (wire[i-1].op = "write" /\ wire[i-1].msg = ZeroTwistLine)
    /\ ser = "closed" =>
          /\ Len(wire) >= 2
          /\ wire[Len(wire)] = CloseEv
          /\ wire[Len(wire) - 1].op = "write"
          /\ wire[Len(wire) - 1].msg = ZeroTwistLine

\* C2, witness: the port was closed after a nonzero twist had been commanded.
C2_Witness ==
    /\ ser = "closed"
    /\ Len(wire) >= 3
    /\ wire[Len(wire) - 2].op = "write"
    /\ wire[Len(wire) - 2].msg # ZeroTwistLine

\* C4: when the only line a read_odom() call found was truncated or garbled,
\* the call does not raise and returns the previously stored pose and velocity,
\* which stay as they were.
C4_MalformedIgnored ==
    (rpc = "ret" /\ nRead = 1 /\ allBad) =>
        (ret = pre /\ Stored = pre /\ outcome # "raised")

-----------------------------------------------------------------------------
(* Claims about JoystickBaseController. *)

\* C5: in toggle mode, at a poll where both buttons are down the turbo flag
\* flips if they were not both down at the previous poll, and keeps its value
\* if they were (so holding both over k polls flips it once, on the first).
C5_ToggleEdge ==
    (use_toggle_turbo /\ polled /\ curBoth) => (flipped <=> ~prevBoth)


BaseKeys == <<"base_vx", "base_vy", "base_omega">>

\* C6: send_action given an action map that omits base_vx, base_vy or
\* base_omega calls send_twist with 0 for each omitted component (with the
\* given value for each present one), the twist is what goes out on an open
\* port, and the only errors the call raises are an arm's.
C6_PartialActionDefault ==
    fcall = "send_action" =>
        /\ \A i \in 1..3 :
              twist_args[i] = IF BaseKeys[i] \in DOMAIN faction
                              THEN faction[BaseKeys[i]] ELSE 0
        /\ ser = "open" =>
              /\ wire # <<>>
              /\ wire[Len(wire)].op = "write"
              /\ wire[Len(wire)].msg =
                    FormatTwist(twist_args[1], twist_args[2], twist_args[3])
        /\ ffail \in {"none", "left", "right"}

\* C6 witness: a completed send_action whose action had an arm key and no
\* base key put the zero twist on the open port.
C6_Witness ==
    /\ fcall = "send_action"
    /\ ffail = "none"
    /\ faction # EmptyMap
    /\ \A i \in 1..3 : BaseKeys[i] \notin DOMAIN faction
    /\ twist_args = Zero3
    /\ ser = "open"
    /\ wire[Len(wire)] = WriteEv(ZeroTwistLine, TRUE)

\* C7: in every configuration the arm keys, the base keys and the camera keys
\* of observation_features are pairwise disjoint, and no action_features key
\* is a camera key.
C7_KeysDistinct ==
    /\ DOMAIN ArmMotorsFt \cap DOMAIN BaseObsFt = {}
    /\ DOMAIN ArmMotorsFt \cap DOMAIN CamerasFt = {}
    /\ DOMAIN BaseObsFt \cap DOMAIN CamerasFt = {}
    /\ {"left_" \o m \o ".pos" : m \in left_motors}
           \cap {"right_" \o m \o ".pos" : m \in right_motors} = {}
    /\ Cardinality(DOMAIN ObservationFeatures) =
           Cardinality(left_motors) + Cardinality(right_motors) + 3 + Cardinality(cameras)
    /\ DOMAIN ActionFeatures \cap DOMAIN CamerasFt = {}

C9_DisconnectAll ==
    fcall = "disconnect" =>
        /\ ~left_conn
        /\ ~right_conn
        /\ ser # "open"
        /\ cams_conn = {}
        /\ ser = "closed" =>
              /\ Len(wire) >= 2
              /\ wire[Len(wire)] = CloseEv
              /\ wire[Len(wire) - 1].op = "write"
              /\ wire[Len(wire) - 1].msg = ZeroTwistLine


\* C10: in each of the modes keyboard, xbox and joystick, the base_vx, base_vy
\* and base_omega entries of the map get_action() returns are the velocities
\* the configured input source produces from its present state (for the
\* joystick, in one of its two speed tiers), and the arms' actions are in the
\* map under the left_ and right_ prefixes.
C10_BaseFromSource ==
    (lcall = "get_action" /\ lfail = "none") =>
        LET got == << lret["base_vx"], lret["base_vy"], lret["base_omega"] >> IN
        /\ base_control_mode = "keyboard" =>
              got = KeyboardVelocities(base_pressed_keys,
                                       LeaderMaxLinearSpeed, LeaderMaxAngularSpeed)
        /\ base_control_mode = "xbox" => got = XboxVelocities(pad)
        /\ base_control_mode = "joystick" =>
              got \in {JoystickVelocities(pad.axes, 3, t) : t \in BOOLEAN}
        /\ \A k \in DOMAIN LeaderArmGetAction :
              /\ lret["left_" \o k] = LeaderArmGetAction[k]
              /\ lret["right_" \o k] = LeaderArmGetAction[k]


\* C3: whenever a script whose connect() returned has stopped, by the normal
\* end of its loop, by an interrupt or by an exception of any step after
\* connect(), it has called disconnect().
C3_DisconnectOnEveryExit ==
    (lpc \in {"exited", "collected"} /\ connected) => disc_called


\* C11: when the leader's and the follower's arms have the same motor names,
\* the map get_action() returns has exactly the keys of the follower's
\* action_features and of the leader's action_features.
C11_LeaderFollowerKeys ==
    (lcall = "get_action" /\ lfail = "none"
       /\ left_motors = LeaderMotors /\ right_motors = LeaderMotors) =>
        /\ DOMAIN lret = DOMAIN ActionFeatures
        /\ DOMAIN lret = DOMAIN LeaderActionFeatures

\* C11 witness: a get_action() in xbox mode returned, beside a follower with
\* the leader's motor names, a map with the follower's action keys.
C11_Witness ==
    /\ lcall = "get_action"
    /\ lfail = "none"
    /\ base_control_mode = "xbox"
    /\ left_motors = LeaderMotors
    /\ right_motors = LeaderMotors
    /\ DOMAIN lret = DOMAIN ActionFeatures
    /\ Cardinality(DOMAIN lret) = 7


\* C12: the map a completed send_action returns holds, under each left_ and
\* right_ key of the action, that arm's own send_action result for the key,
\* and its base_vx, base_vy and base_omega are the twist that the call wrote
\* to the base.
C12_ReturnIsApplied ==
    (fcall = "send_action" /\ ffail = "none") =>
        /\ \A k \in DOMAIN Unprefixed("left_", faction) :
              fret["left_" \o k] = ArmSendAction(Unprefixed("left_", faction))[k]
        /\ \A k \in DOMAIN Unprefixed("right_", faction) :
              fret["right_" \o k] = ArmSendAction(Unprefixed("right_", faction))[k]
        /\ ser = "open"
        /\ wire # <<>>
        /\ wire[Len(wire)] =
              WriteEv(FormatTwist(fret["base_vx"], fret["base_vy"], fret["base_omega"]), TRUE)


\* C13: is_connected is true exactly when no sub-device is disconnected: not
\* the left arm, not the right arm, not the base's port, not any camera.
C13_IsConnectedExact ==
    IsConnected <=>
        ~ \/ ~left_conn
          \/ ~right_conn
          \/ ser \in {"none", "closed"}
          \/ \E cam \in cameras : cam \notin cams_conn

\* C13 witness: both arms and the base connected, one of two cameras not,
\* and is_connected false.
C13_Witness ==
    /\ left_conn
    /\ right_conn
    /\ ser = "open"
    /\ Cardinality(cameras) = 2
    /\ Cardinality(cams_conn) = 1
    /\ ~IsConnected


\* C14: for each input source, is_connected() is true only while the device
\* is live (the keyboard listener alive, the gamepad or joystick handle
\* present and initialized); so it is false before connect() and after
\* disconnect().
C14_IsConnectedLive ==
    /\ KeyboardIsConnected => kb_listener = "alive"
    /\ XboxIsConnected => xjoystick = "init"
    /\ JoystickIsConnected => joystick = "init"
    /\ (xcall \in {"none", "disconnect"} /\ xout # "raised") => ~XboxIsConnected


\* C15: a poll at which the enable button is not held returns the zero twist,
\* from a JoystickBaseController that requires the safety button and from an
\* XboxBaseController, whatever the axes and the turbo button show.
C15_SafetyForcesZero ==
    /\ (require_safety_button /\ polled /\ ~curEnable) => jvel = Zero3
    /\ (xcall = "get_velocities" /\ xout = "returned" /\ ~xpad.enable) => xvel = Zero3


\* C16: after a connect() that found no gamepad or joystick, the call has
\* returned without raising, is_connected() is false, and every
\* get_velocities() since has returned the zero twist without raising.
C16_AbsentDevice ==
    /\ (xcount = 0 /\ xcall = "connect") => (xout = "returned" /\ ~XboxIsConnected)
    /\ (xcount = 0 /\ xcall = "get_velocities") =>
          (xout = "returned" /\ xvel = Zero3 /\ ~XboxIsConnected)
    /\ jabsent => ~JoystickIsConnected


\* C17: whatever key events the listener thread delivers during a
\* get_velocities() call, the twist it returns is the mapping of the
\* pressed-key set as it stood at some instant of the call.
C17_BenignRace ==
    kpc = 7 => kret \in kseen


\* C18: every read_odom() call that has entered its drain loop returns, also
\* when lines keep arriving while it drains.
C18_ReadOdomReturns ==
    (rpc = "drain") ~> (rpc = "ret")

\* C19: a send_twist() call whose write fails on an open port does not raise,
\* and leaves the port, the stored pose and the stored velocity as they were.
C19_WriteFailureContained ==
    [][(/\ ser = "open"
        /\ ser' = "open"
        /\ \E t \in TwistSet :
              wire' = Push(wire, WriteEv(FormatTwist(t[1], t[2], t[3]), FALSE)))
       => (/\ outcome' # "raised"
           /\ latest_odom' = latest_odom
           /\ latest_vel' = latest_vel)]_vars

\* C19, witness: the last thing the open port saw is a failed write of a
\* nonzero twist, and the call has returned.
C19_Witness ==
    /\ ser = "open"
    /\ wire # <<>>
    /\ wire[Len(wire)].op = "write"
    /\ ~wire[Len(wire)].ok
    /\ wire[Len(wire)].msg # ZeroTwistLine
    /\ outcome = "none"


\* C20: a MimicFollower.connect() that fails at opening the base's serial
\* device raises; the driver's handle is as it was before the call and is not
\* an open one, the stored pose and velocity are as they were, and
\* is_connected is false after the call.
C20_FailedOpenRaises ==
    [][(fcall' = "connect" /\ ffail' = "base")
       => (/\ outcome' = "raised"
           /\ ser' = ser
           /\ ser' # "open"
           /\ latest_odom' = latest_odom
           /\ latest_vel' = latest_vel
           /\ ~IsConnected')]_vars

\* C20, witness: after a disconnect, a connect() has failed at the base: both
\* arms are connected, the base's handle is the closed one.
C20_Witness ==
    /\ fcall = "connect"
    /\ ffail = "base"
    /\ outcome = "raised"
    /\ left_conn
    /\ right_conn
    /\ ser = "closed"
    /\ ~IsConnected

-----------------------------------------------------------------------------
(* Claims about MecanumBase and its caller. *)

\* C21: a connect() on a port that is already open does not raise, puts
\* nothing on the port, and leaves the handle open, the input buffer, the
\* stored pose and the stored velocity as they were.
C21_ConnectIdempotent ==
    [][(bcall' = "connect" /\ ser = "open")
       => (/\ ser' = "open"
           /\ inbuf' = inbuf
           /\ wire' = wire
           /\ outcome' # "raised"
           /\ latest_odom' = latest_odom
           /\ latest_vel' = latest_vel)]_vars

\* C21, witness: a connect() has returned on a port that holds unread lines
\* (a connect() that opens the port leaves the buffer empty) while the stored
\* pose is not the initial one.
C21_Witness ==
    /\ bcall = "connect"
    /\ ser = "open"
    /\ inbuf # <<>>
    /\ latest_odom # Zero3
    /\ outcome = "none"

\* C22: the driver changes the stored pose and velocity only in a read_odom()
\* call whose last complete line is a well-formed ODOM line: connect(),
\* send_twist() and disconnect() leave them as they were (so a commanded twist
\* is never stored as the reported velocity).  Writes a caller makes into
\* arrays it holds are left aside here.
C22_OnlyTelemetryMutates ==
    [][(Stored' # Stored /\ bcall' # "write")
       => (bcall' = "read_odom" /\ WellFormed(bline'))]_vars

\* C25: a read_odom() call on an open port that meets no I/O error leaves the
\* input buffer empty (so a trailing partial line is not kept), and the
\* stored pair after it is the six values of the last complete line that was
\* in the buffer if that line is a well-formed ODOM line, and otherwise the
\* pair stored before the call, whatever the lines before that one were.
C25_LastCompleteLineOnly ==
    [][(bcall' = "read_odom" /\ outcome' \in {"parsed", "noline"}) =>
          LET complete == SelectSeq(inbuf, Complete)
              last     == IF complete = <<>> THEN "" ELSE complete[Len(complete)]
          IN  /\ inbuf' = <<>>
              /\ Stored' = IF last # "" /\ WellFormed(last) THEN FieldsOf(last) ELSE Stored]_vars

\* C27: while the port is not open (never opened, or closed), send_twist()
\* and read_odom() put nothing on the port, take nothing from it and do not
\* raise; the stored pair stays as it was and is what read_odom() hands back.
\* So no TWIST line follows a disconnect() before the next connect() that
\* opens the port.
C27_ClosedPortNoIO ==
    [][(ser # "open" /\ bcall' \in {"send_twist", "read_odom"})
       => (/\ wire' = wire
           /\ inbuf' = inbuf
           /\ ser' = ser
           /\ outcome' # "raised"
           /\ Stored' = Stored
           /\ (bcall' = "read_odom" => (held' = "driver" /\ HeldValue' = Stored)))]_vars

\* C27, witness: send_twist() was called after a disconnect(); the close is
\* still the last thing the port saw, and the stored pose is a parsed one.
C27_Witness ==
    /\ bcall = "send_twist"
    /\ ser = "closed"
    /\ wire # <<>>
    /\ wire[Len(wire)] = CloseEv
    /\ outcome = "none"
    /\ latest_odom = <<1, 2, 3>>

\* C29: the stored pose and the stored velocity are the initial zeros, or
\* the first three and the next three values of one and the same line that
\* carries six floats after its header: no read_odom() call changes one of
\* them without the other.
C29_PoseAndVelocityFromOneLine ==
    LET lines == LineSet \cup {l \o RestOfLine : l \in {m \in LineSet : ~Complete(m)}}
        full  == {l \in lines :
                    LET parts == Split(Strip(Decode(l))) IN
                    Len(parts) >= 7 /\ \A i \in 2..7 : IsFloat(parts[i])}
    IN  Stored \in {NoPair} \cup {FieldsOf(l) : l \in full}

\* C29, witness: a read_odom() call has parsed a line whose sixth value is
\* missing, and the stored pair is still the whole pair of the line parsed
\* before it.
C29_Witness ==
    /\ bcall = "read_odom"
    /\ outcome = "parsed"
    /\ bline = "ODOM,1,2,3,4,5\n"
    /\ Stored = [odom |-> <<16777216, 6, 5>>, vel |-> <<4, 3, 2>>]

\* C30: what one read_odom() call handed back is a snapshot: the arrays the
\* caller holds keep the values they had when they were returned, whatever
\* read_odom() calls follow, and a caller writing into them changes nothing
\* the driver has stored.
C30_ReturnIsSnapshot ==
    /\ [](held = "driver" => HeldValue = seen)
    /\ [][bcall' = "write" => Stored' = Stored]_vars

-----------------------------------------------------------------------------
(* More claims about JoystickBaseController. *)

\* C23: a get_velocities() call that maps the stick returns
\* vx = -y * linear, vy = x * linear, omega = -twist * angular, where x, y and
\* twist are the axes read at this call, each counted as 0 when its magnitude
\* is below the deadzone (0.15), and linear, angular are the limits of the
\* tier in use; nothing of earlier polls enters.
C23_DeadzoneAndMapping ==
    jout = "mapped" =>
        LET tier    == IF use_toggle_turbo THEN turbo_toggled ELSE curTurbo
            linear  == IF tier THEN MaxLinearSpeedTurbo ELSE MaxLinearSpeed
            angular == IF tier THEN MaxAngularSpeedTurbo ELSE MaxAngularSpeed
            raw     == <<curAxes[1], curAxes[2], IF curNum > 2 THEN curAxes[3] ELSE 0>>
            dz      == [i \in 1..3 |->
                          IF -Deadzone < raw[i] /\ raw[i] < Deadzone THEN 0 ELSE raw[i]]
        IN  jvel = << (-dz[2]) * linear, dz[1] * linear, (-dz[3]) * angular >>

\* C23, witness: raw axes (x = 0.05, y = -0.4, twist = 0.0) polled at the
\* normal tier have given (vx = +0.4 * linear, vy = 0, omega = 0).
C23_Witness ==
    /\ jout = "mapped"
    /\ curAxes = <<50, -400, 0>>
    /\ ~use_toggle_turbo
    /\ ~curTurbo
    /\ jvel = <<400 * MaxLinearSpeed, 0, 0>>

\* C24: in toggle mode, whatever require_safety_button is, the turbo flag
\* changes at a poll exactly when both buttons are down at that poll and were
\* not both down at the poll before it; at every other poll it keeps its value.
C24_FlipIffRisingEdge ==
    (use_toggle_turbo /\ jout \in {"safety", "mapped"})
        => (flipped <=> (curBoth /\ ~prevBoth))

-----------------------------------------------------------------------------
(* Claims about the hold policy and about disconnected input sources. *)

\* C26: under the hold policy, a poll that maps the sticks uses the turbo
\* limits exactly when the turbo button is down at that poll, whatever the
\* buttons were at earlier polls: for a JoystickBaseController with
\* use_toggle_turbo off and for an XboxBaseController, the twist returned is
\* the sticks' mapping scaled by the limits of the tier that button selects.
C26_HoldTierFromThisPoll ==
    /\ (base_control_mode = "joystick" /\ ~use_toggle_turbo /\ jout = "mapped") =>
          LET linear  == IF curTurbo THEN MaxLinearSpeedTurbo ELSE MaxLinearSpeed
              angular == IF curTurbo THEN MaxAngularSpeedTurbo ELSE MaxAngularSpeed
              raw     == <<curAxes[1], curAxes[2], IF curNum > 2 THEN curAxes[3] ELSE 0>>
              dz      == [i \in 1..3 |-> IF Abs(raw[i]) < Deadzone THEN 0 ELSE raw[i]]
          IN  jvel = << (-dz[2]) * linear, dz[1] * linear, (-dz[3]) * angular >>
    /\ (/\ base_control_mode = "xbox"
        /\ xcall = "get_velocities" /\ xout = "returned" /\ xjoystick = "init"
        /\ (xpad.enable \/ xpad.turbo)) =>
          LET linear  == IF xpad.turbo THEN MaxLinearSpeedTurbo ELSE MaxLinearSpeed
              angular == IF xpad.turbo THEN MaxAngularSpeedTurbo ELSE MaxAngularSpeed
              dz      == [i \in 1..3 |->
                            IF Abs(xpad.axes[i]) < Deadzone THEN 0 ELSE xpad.axes[i]]
          IN  xvel = << (-dz[2]) * linear, (-dz[1]) * linear, (-dz[3]) * angular >>

\* C26, witness: an Xbox poll with RB down and LB up, the left stick fully
\* forward, has returned the turbo linear limit.
C26_Witness ==
    /\ base_control_mode = "xbox"
    /\ xcall = "get_velocities" /\ xout = "returned" /\ xjoystick = "init"
    /\ xpad.turbo /\ ~xpad.enable
    /\ xvel = <<1000 * MaxLinearSpeedTurbo, 0, 0>>

\* C28: a get_velocities() call made while the input source's is_connected()
\* is false returns (0, 0, 0); keys that were down before disconnect() do not
\* command the base afterwards.  Stated for the KeyboardBaseController.
C28_DisconnectedGivesZero ==
    (kpc = 7 /\ ~kconn) => kret = Zero3

=============================================================================
